---- MODULE Spec2Model ----
(***************************************************************************)
(* Participant call lifecycle of audiosurvey_ai: the participant ledger    *)
(* (app/state.py), the dispatcher (app/scheduler.py) and the webhook       *)
(* handlers /next, /call-status and /recording-done (app/twilio_handler.py)*)
(*                                                                         *)
(* Time is in whole seconds of UTC.  A stored timestamp string is a record *)
(* [kind, wall, off]: kind says how the string is written ("none" is       *)
(* Python None, "empty" is "", "bad" does not parse, "z" ends in Z,        *)
(* "offset" carries an explicit UTC offset of off seconds, "naive" has no  *)
(* designator), wall is the wall-clock reading the string shows.           *)
(***************************************************************************)
EXTENDS Integers, Sequences, FiniteSets, TLC

VARIABLES
    ledger,     \* data/state/participants.json: participant id -> record
    order,      \* insertion order of the ledger's keys (dict iteration order)
    callLog,    \* data/state/call_log.csv: [header, rows]
    now,        \* the UTC clock, in seconds
    nextSid,    \* the next call session id the provider hands out
    last,       \* the last handler that ran as one step, its inputs and its response
    heard,      \* participants who spoke a real answer during their current attempt
                \* (kept by the handlers that run as one step)
    fn,         \* function-level harness: the last function applied, its input and output
    placed,     \* participant id -> number of calls the provider has placed for it
    paused,     \* the persisted paused flag
    inflight,   \* handlers between their load_participants and their save_participants
    disk,       \* the files of data/state and their contents, for the store-level model
    io          \* the save_participants / load_participants calls in progress on disk

vars == <<ledger, order, callLog, now, nextSid, last, heard, fn, placed, paused,
          inflight, disk, io>>

\* the variables only the dispatcher-, handler- and store-level models change
aux == <<paused, inflight, disk, io>>

----------------------------------------------------------------------------
(* Program constants *)

MAX_ATTEMPTS == 3

\* timedelta(hours=1), in seconds
RETRY_GAP == 3600

\* recording_done: len(text.strip().split()) < 5
MIN_WORDS == 5

\* America/New_York is 5 hours behind UTC (standard time), in seconds
NY_UTC_OFFSET == 18000

\* last_call_sid / last_recording_url of DEFAULT are None
NoSid == 0
NoUrl == 0

----------------------------------------------------------------------------
(* Bounds of the model *)

\* session ids the provider hands out: 1..MaxSid
MaxSid == 4

\* the clock advances MaxTicks times at most
MaxTicks == 3

Participants == {"p1", "p2"}

\* uploaded contacts files: sequences of <<participant_id, phone_e164>> rows
ContactFiles == { <<<<"p1", "+254700000001">>>> }

Sids == 1 .. MaxSid

\* one clock step: the retry gap
ClockStep == RETRY_GAP

----------------------------------------------------------------------------
(* Timestamps *)

NoTime == [kind |-> "none", wall |-> 0, off |-> 0]
EmptyTime == [kind |-> "empty", wall |-> 0, off |-> 0]
BadTime == [kind |-> "bad", wall |-> 0, off |-> 0]
ZTime(t) == [kind |-> "z", wall |-> t, off |-> 0]
NaiveTime(t) == [kind |-> "naive", wall |-> t, off |-> 0]
OffsetTime(wall, off) == [kind |-> "offset", wall |-> wall, off |-> off]

\* Python truthiness of an optional string
Truthy(s) == s.kind \notin {"none", "empty"}

\* _now_iso: naive ISO string of the UTC clock
now_iso(t) == NaiveTime(t)

\* _parse_utc_iso: [ok, t]; ok = FALSE stands for the raised ValueError
parse_utc_iso(s) ==
    CASE s.kind \in {"none", "empty"} -> [ok |-> FALSE, t |-> 0]
      [] s.kind = "bad" -> [ok |-> FALSE, t |-> 0]
      [] s.kind = "z" -> [ok |-> TRUE, t |-> s.wall]
      [] s.kind = "offset" -> [ok |-> TRUE, t |-> s.wall - s.off]
      [] OTHER -> [ok |-> TRUE, t |-> s.wall]

\* datetime.fromisoformat(last_time).replace(tzinfo=timezone.utc): the wall
\* reading is kept and any offset is dropped
parse_last_call_time(s) ==
    CASE s.kind \in {"bad", "none", "empty"} -> [ok |-> FALSE, t |-> 0]
      [] OTHER -> [ok |-> TRUE, t |-> s.wall]

----------------------------------------------------------------------------
(* Participant records *)

Statuses == {"pending", "in_progress", "completed", "failed"}

Retryable == {"no-answer", "busy", "failed", "canceled"}
Progress == {"initiated", "ringing", "answered", "in-progress"}

OutputKeys == {"audio_path", "transcript_path", "translation_path", "english_audio_path"}

\* DEFAULT; a record made by setdefault(pid, dict(DEFAULT)) has no phone_e164
DEFAULT ==
    [ phone_e164 |-> "",
      status |-> "pending",
      attempts |-> 0,
      last_call_time |-> NoTime,
      last_call_sid |-> NoSid,
      last_call_status |-> "none",
      engaged |-> FALSE,
      last_recording_url |-> NoUrl,
      last_outputs |-> {},
      scheduled_time_local |-> NoTime,
      scheduled_time_utc |-> NoTime ]

Has(state, pid) == pid \in DOMAIN state

\* state.setdefault(pid, dict(DEFAULT))
SetDefault(state, pid) ==
    IF Has(state, pid) THEN state
    ELSE [q \in DOMAIN state \cup {pid} |-> IF q = pid THEN DEFAULT ELSE state[q]]

Put(state, pid, rec) ==
    [q \in DOMAIN state \cup {pid} |-> IF q = pid THEN rec ELSE state[q]]

----------------------------------------------------------------------------
(* app/state.py *)

\* faulty variant of upsert_participant: an existing participant is created anew
upsert_participant_recreates(state, pid, phone) ==
    Put(state, pid, [DEFAULT EXCEPT !.phone_e164 = phone])

\* upsert_participant
upsert_participant(state, pid, phone) ==
    IF ~Has(state, pid)
    THEN Put(state, pid, [DEFAULT EXCEPT !.phone_e164 = phone])
    ELSE [state EXCEPT ![pid].phone_e164 = phone]

\* faulty variant of schedule_gate: the schedule is required in either mode
schedule_gate_always_required(p, require_schedule, t) ==
    LET sched_utc == p.scheduled_time_utc
        sched == parse_utc_iso(sched_utc)
    IN  IF ~Truthy(sched_utc) THEN FALSE
        ELSE IF sched.ok /\ t < sched.t THEN FALSE
        ELSE IF ~sched.ok THEN FALSE
        ELSE TRUE

\* faulty variant of schedule_gate: a schedule in the future does not block
schedule_gate_ignores_future(p, require_schedule, t) ==
    LET sched_utc == p.scheduled_time_utc
        sched == parse_utc_iso(sched_utc)
    IN  IF require_schedule /\ ~Truthy(sched_utc) THEN FALSE
        ELSE IF Truthy(sched_utc) /\ ~sched.ok /\ require_schedule THEN FALSE
        ELSE TRUE

\* can_call, the scheduling gate: TRUE when the gate lets the call through
schedule_gate(p, require_schedule, t) ==
    LET sched_utc == p.scheduled_time_utc
        sched == parse_utc_iso(sched_utc)
    IN  IF require_schedule /\ ~Truthy(sched_utc) THEN FALSE
        ELSE IF Truthy(sched_utc) /\ sched.ok /\ t < sched.t THEN FALSE
        ELSE IF Truthy(sched_utc) /\ ~sched.ok /\ require_schedule THEN FALSE
        ELSE TRUE

\* faulty variant of retry_gap_gate: the gap has to be exceeded
retry_gap_gate_strict(p, t) ==
    LET last_time == p.last_call_time
        last_dt == parse_last_call_time(last_time)
    IN  IF ~Truthy(last_time) THEN TRUE
        ELSE IF ~last_dt.ok THEN TRUE
        ELSE (t - last_dt.t) > RETRY_GAP

\* can_call, the retry gap gate
retry_gap_gate(p, t) ==
    LET last_time == p.last_call_time
        last_dt == parse_last_call_time(last_time)
    IN  IF ~Truthy(last_time) THEN TRUE
        ELSE IF ~last_dt.ok THEN TRUE
        ELSE (t - last_dt.t) >= RETRY_GAP

\* faulty variant of attempts_cap: off by one
attempts_cap_off_by_one(p) == p.attempts > MAX_ATTEMPTS

\* can_call, the attempts cap: TRUE when the cap refuses the call
attempts_cap(p) == p.attempts >= MAX_ATTEMPTS

\* faulty variant of can_call: only a completed participant is refused as terminal
can_call_dials_failed(state, pid, require_schedule, t) ==
    IF ~Has(state, pid) THEN ~require_schedule
    ELSE
    LET p == state[pid]
    IN  IF p.status = "completed" THEN FALSE
        ELSE IF attempts_cap(p) THEN FALSE
        ELSE IF ~schedule_gate(p, require_schedule, t) THEN FALSE
        ELSE retry_gap_gate(p, t)

\* can_call at clock reading t
can_call(state, pid, require_schedule, t) ==
    IF ~Has(state, pid) THEN ~require_schedule
    ELSE
    LET p == state[pid]
    IN  IF p.status \in {"completed", "failed"} THEN FALSE
        ELSE IF attempts_cap(p) THEN FALSE
        ELSE IF ~schedule_gate(p, require_schedule, t) THEN FALSE
        ELSE retry_gap_gate(p, t)

\* mark_engaged
mark_engaged(state, pid) ==
    LET st == SetDefault(state, pid)
    IN  [st EXCEPT ![pid].engaged = TRUE]

\* faulty variant of mark_call_started: engaged is not reset
mark_call_started_keeps_engaged(state, pid, call_sid, t) ==
    LET st == SetDefault(state, pid)
    IN  [st EXCEPT ![pid].status = "in_progress",
                   ![pid].attempts = @ + 1,
                   ![pid].last_call_time = now_iso(t),
                   ![pid].last_call_sid = call_sid]

\* mark_call_started at clock reading t
mark_call_started(state, pid, call_sid, t) ==
    LET st == SetDefault(state, pid)
    IN  [st EXCEPT ![pid].status = "in_progress",
                   ![pid].attempts = @ + 1,
                   ![pid].last_call_time = now_iso(t),
                   ![pid].last_call_sid = call_sid,
                   ![pid].engaged = FALSE]

\* faulty variant of mark_completed: the outputs are not stored
mark_completed_without_outputs(state, pid, recording_url, outputs) ==
    LET st == SetDefault(state, pid)
    IN  [st EXCEPT ![pid].status = "completed",
                   ![pid].last_recording_url = recording_url]

\* mark_completed
mark_completed(state, pid, recording_url, outputs) ==
    LET st == SetDefault(state, pid)
    IN  [st EXCEPT ![pid].status = "completed",
                   ![pid].last_recording_url = recording_url,
                   ![pid].last_outputs = outputs]

\* (call_status or "").lower().strip() on the provider's status strings
RawStatuses ==
    Retryable \cup Progress \cup {"completed", "queued", "", "Completed ", "NO-ANSWER"}

NormStatus(s) ==
    CASE s = "Completed " -> "completed"
      [] s = "NO-ANSWER" -> "no-answer"
      [] OTHER -> s

\* faulty variant of retry_exhausted: off by one
retry_exhausted_off_by_one(p) == p.attempts > MAX_ATTEMPTS

\* mark_call_result, the test on attempts of a retryable failure
retry_exhausted(p) == p.attempts >= MAX_ATTEMPTS

\* faulty variant of mark_call_result: a completed call completes the participant
mark_call_result_completes(state, pid, call_status) ==
    LET st == SetDefault(state, pid)
        cs == NormStatus(call_status)
        st1 == [st EXCEPT ![pid].last_call_status = cs]
    IN  IF cs \in Retryable
        THEN IF retry_exhausted(st1[pid])
             THEN [st1 EXCEPT ![pid].status = "failed"]
             ELSE [st1 EXCEPT ![pid].status = "pending"]
        ELSE IF cs = "completed"
        THEN [st1 EXCEPT ![pid].status = "completed"]
        ELSE IF cs \in Progress
        THEN [st1 EXCEPT ![pid].status = "in_progress"]
        ELSE st1

\* mark_call_result
mark_call_result(state, pid, call_status) ==
    LET st == SetDefault(state, pid)
        cs == NormStatus(call_status)
        st1 == [st EXCEPT ![pid].last_call_status = cs]
    IN  IF cs \in Retryable
        THEN IF retry_exhausted(st1[pid])
             THEN [st1 EXCEPT ![pid].status = "failed"]
             ELSE [st1 EXCEPT ![pid].status = "pending"]
        ELSE IF cs = "completed"
        THEN IF st1[pid].status # "completed"
             THEN [st1 EXCEPT ![pid].status = "in_progress"]
             ELSE st1
        ELSE IF cs \in Progress
        THEN [st1 EXCEPT ![pid].status = "in_progress"]
        ELSE st1

\* the fieldnames of the call log's csv.DictWriter
LogHeaders ==
    {"timestamp_utc", "participant_id", "phone_e164", "direction", "call_sid",
     "recording_url", "audio_path", "transcript_path", "translation_path",
     "english_audio_path"}

\* log_call_event: [log, raised].  The file is opened for append (created, and
\* the header written, when it did not exist); DictWriter.writerow raises
\* ValueError, writing nothing, when the row has a key outside the fieldnames,
\* and fills a fieldname the row lacks with "".
log_call_event(log, row) ==
    LET opened == [log EXCEPT !.header = TRUE]
    IN  IF ~(DOMAIN row \subseteq LogHeaders)
        THEN [log |-> opened, raised |-> TRUE]
        ELSE [log |-> [opened EXCEPT !.rows = Append(@, row)], raised |-> FALSE]

----------------------------------------------------------------------------
(* app/utils.py *)

\* faulty variant of schedule_participant: an unknown participant is created
schedule_participant_creates_unknown(state, pid, local_time_str) ==
    IF local_time_str.kind # "naive" THEN [state |-> state, raised |-> TRUE]
    ELSE
    LET st0 == SetDefault(state, pid)
        local_dt == OffsetTime(local_time_str.wall, 0 - NY_UTC_OFFSET)
        utc_dt == ZTime(local_time_str.wall + NY_UTC_OFFSET)
        st1 == [st0 EXCEPT ![pid].scheduled_time_local = local_dt,
                           ![pid].scheduled_time_utc = utc_dt]
        st2 == IF st1[pid].status \notin {"completed", "failed"}
               THEN [st1 EXCEPT ![pid].status = "pending"]
               ELSE st1
    IN  [state |-> st2, raised |-> FALSE]

\* schedule_participant: [state, raised].  local_time_str is parsed with
\* strptime("%Y-%m-%d %H:%M") as New York wall time; raised stands for the
\* ValueError of an unknown participant or an unparseable string.
schedule_participant(state, pid, local_time_str) ==
    IF ~Has(state, pid) THEN [state |-> state, raised |-> TRUE]
    ELSE IF local_time_str.kind # "naive" THEN [state |-> state, raised |-> TRUE]
    ELSE
    LET local_dt == OffsetTime(local_time_str.wall, 0 - NY_UTC_OFFSET)
        utc_dt == ZTime(local_time_str.wall + NY_UTC_OFFSET)
        st1 == [state EXCEPT ![pid].scheduled_time_local = local_dt,
                             ![pid].scheduled_time_utc = utc_dt]
        st2 == IF st1[pid].status \notin {"completed", "failed"}
               THEN [st1 EXCEPT ![pid].status = "pending"]
               ELSE st1
    IN  [state |-> st2, raised |-> FALSE]

----------------------------------------------------------------------------
(* app/scheduler.py *)

\* The loop of run_once from the i-th key on: st is the in-memory ledger, sid
\* the next session id of the provider, fails the participants whose
\* client.calls.create raises, called the participants dialed so far.
RECURSIVE DispatchFrom(_, _, _, _, _, _, _, _)
DispatchFrom(st, ord, i, sid, require_schedule, t, fails, called) ==
    IF i > Len(ord)
    THEN [state |-> st, sid |-> sid, raised |-> FALSE, called |-> called]
    ELSE
    LET pid == ord[i]
    IN  IF st[pid].phone_e164 = ""
        THEN DispatchFrom(st, ord, i + 1, sid, require_schedule, t, fails, called)
        ELSE IF ~can_call(st, pid, require_schedule, t)
        THEN DispatchFrom(st, ord, i + 1, sid, require_schedule, t, fails, called)
        ELSE IF pid \in fails
        THEN [state |-> st, sid |-> sid, raised |-> TRUE, called |-> called]
        ELSE DispatchFrom(mark_call_started(st, pid, sid, t), ord, i + 1, sid + 1,
                          require_schedule, t, fails, called \cup {pid})

\* run_once: [state, sid, raised, called]; state is the ledger on disk after
\* the tick.  An exception of client.calls.create leaves the function before
\* save_participants; the ledger is saved only if a call was placed.
run_once(state, ord, require_schedule, t, sid, fails) ==
    LET r == DispatchFrom(state, ord, 1, sid, require_schedule, t, fails, {})
    IN  [state |-> IF ~r.raised /\ r.called # {} THEN r.state ELSE state,
         sid |-> r.sid, raised |-> r.raised, called |-> r.called]

\* the lines run_once logs for the calls it placed, "Calling {participant_id}
\* -> {phone} | CallSid={call.sid}": phone is the stripped phone_e164 the
\* call was placed to; r is the result of run_once on state
DispatchLog(state, r) ==
    { [participant_id |-> pid,
       phone |-> state[pid].phone_e164,
       call_sid |-> r.state[pid].last_call_sid] : pid \in r.called }

----------------------------------------------------------------------------
(* app/twilio_handler.py *)

NoPid == ""

\* str.strip and str.lower on the strings the model uses
Strip(s) ==
    CASE s = "  " -> ""
      [] s = "no speech " -> "no speech"
      [] OTHER -> s

Lower(s) ==
    CASE s = "Silence" -> "silence"
      [] s = "Completed" -> "completed"
      [] OTHER -> s

\* SpeechResult values of the /next request
Utterances == {"", "Silence", "ndiyo"}

\* looks_like_real_speech
looks_like_real_speech(s) ==
    IF s = "" THEN FALSE
    ELSE IF Strip(s) = "" THEN FALSE
    ELSE IF Lower(Strip(s)) \in {"...", "silence", "no speech"} THEN FALSE
    ELSE TRUE

RECURSIVE FindFrom(_, _, _, _)
FindFrom(state, ord, i, call_sid) ==
    IF i > Len(ord) THEN NoPid
    ELSE IF call_sid # NoSid /\ state[ord[i]].last_call_sid = call_sid THEN ord[i]
    ELSE FindFrom(state, ord, i + 1, call_sid)

\* faulty variant of find_participant_by_callsid: an earlier session id of a
\* participant is matched too
find_participant_by_any_callsid(state, ord, call_sid) ==
    LET hits == {i \in 1 .. Len(ord) :
                    /\ call_sid # NoSid
                    /\ state[ord[i]].last_call_sid # NoSid
                    /\ call_sid <= state[ord[i]].last_call_sid}
    IN  IF hits = {} THEN NoPid
        ELSE ord[CHOOSE i \in hits : \A j \in hits : i <= j]

\* find_participant_by_callsid: the first key, in dict order, whose
\* last_call_sid is call_sid; NoPid for (None, None)
find_participant_by_callsid(state, ord, call_sid) == FindFrom(state, ord, 1, call_sid)

\* next_question, the engagement part: the ledger after the request
next_question(state, ord, call_sid, speech) ==
    LET pid == find_participant_by_callsid(state, ord, call_sid)
    IN  IF call_sid # NoSid /\ looks_like_real_speech(Strip(speech)) /\ pid # NoPid
        THEN mark_engaged(state, pid)
        ELSE state

\* faulty variant of call_status: no downgrade of a completed call without engagement
call_status_no_downgrade(state, ord, call_sid, raw_status) ==
    LET call_status_val == NormStatus(raw_status)
        pid == find_participant_by_callsid(state, ord, call_sid)
    IN  IF pid = NoPid THEN state
        ELSE mark_call_result(state, pid, call_status_val)

\* call_status: the ledger after the request (the response is always 200)
call_status(state, ord, call_sid, raw_status) ==
    LET call_status_val == NormStatus(raw_status)
        pid == find_participant_by_callsid(state, ord, call_sid)
        st1 == mark_call_result(state, pid, call_status_val)
    IN  IF pid = NoPid THEN state
        ELSE IF call_status_val = "completed" /\ ~st1[pid].engaged
        THEN [st1 EXCEPT ![pid].status = "pending"]
        ELSE st1

\* mask_phone is imported from app.state, which does not define it
mask_phone(phone) == IF phone = "" THEN "" ELSE "****"

\* the four artifact paths; base is safe_base(call_sid): call_sid and the time
Outputs(call_sid, t) == {<<k, call_sid, t>> : k \in OutputKeys}

\* the row recording_done hands to log_call_event
AuditRow(pid, phone, call_sid, recording_url, t) ==
    [k \in {"timestamp_utc", "participant_id", "phone_masked", "direction",
            "call_sid", "recording_url"} \cup OutputKeys |->
        CASE k = "timestamp_utc" -> t
          [] k = "participant_id" -> pid
          [] k = "phone_masked" -> mask_phone(phone)
          [] k = "direction" -> "outbound-api"
          [] k = "call_sid" -> call_sid
          [] k = "recording_url" -> recording_url
          [] OTHER -> <<k, call_sid, t>>]

\* RecordingStatus values of the /recording-done request
RecStatuses == {"Completed", "in-progress"}

\* faulty variant of completion_guard: the engaged flag is not consulted
completion_guard_ignores_engaged(known_participant, last_call_status, engaged) ==
    ~(known_participant /\ last_call_status \in Retryable)

\* faulty variant of completion_guard: the last call status is not consulted
completion_guard_ignores_retryable(known_participant, last_call_status, engaged) ==
    ~(known_participant /\ ~engaged)

\* recording_done, the checks made for a known participant before the
\* recording is fetched: TRUE when the pipeline may run
completion_guard(known_participant, last_call_status, engaged) ==
    IF known_participant /\ last_call_status \in Retryable THEN FALSE
    ELSE IF known_participant /\ ~engaged THEN FALSE
    ELSE TRUE

\* faulty variant of recording_done: the word threshold is not applied
recording_done_completes_short(state, ord, log, call_sid, recording_url, raw_rec_status, download_ok, words, t) ==
    LET rec_status == Lower(raw_rec_status)
        participant_id == find_participant_by_callsid(state, ord, call_sid)
        known_participant == participant_id # NoPid
        phone == IF known_participant THEN state[participant_id].phone_e164 ELSE ""
        engaged == IF known_participant THEN state[participant_id].engaged ELSE FALSE
        last_call_status ==
            IF known_participant /\ state[participant_id].last_call_status # "none"
            THEN state[participant_id].last_call_status ELSE ""
        st1 == IF known_participant
               THEN mark_completed(state, participant_id, recording_url,
                                   Outputs(call_sid, t))
               ELSE state
        logged == log_call_event(log,
                      AuditRow(participant_id, phone, call_sid, recording_url, t))
        skip(resp, ran) == [state |-> state, log |-> log, resp |-> resp,
                            pipeline |-> ran, marked |-> FALSE]
    IN  IF rec_status # "" /\ rec_status # "completed" THEN skip(200, FALSE)
        ELSE IF recording_url = NoUrl THEN skip(400, FALSE)
        ELSE IF ~completion_guard(known_participant, last_call_status, engaged)
        THEN skip(200, FALSE)
        ELSE IF ~download_ok THEN skip(500, FALSE)
        ELSE [state |-> st1, log |-> logged.log,
              resp |-> IF logged.raised THEN 500 ELSE 200,
              pipeline |-> TRUE, marked |-> known_participant]

\* faulty variant of recording_done: the recording url is stored in the ledger
\* before the recording is fetched
recording_done_stores_url_first(state, ord, log, call_sid, recording_url, raw_rec_status, download_ok, words, t) ==
    LET rec_status == Lower(raw_rec_status)
        participant_id == find_participant_by_callsid(state, ord, call_sid)
        known_participant == participant_id # NoPid
        phone == IF known_participant THEN state[participant_id].phone_e164 ELSE ""
        engaged == IF known_participant THEN state[participant_id].engaged ELSE FALSE
        last_call_status ==
            IF known_participant /\ state[participant_id].last_call_status # "none"
            THEN state[participant_id].last_call_status ELSE ""
        st0 == IF known_participant
               THEN [state EXCEPT ![participant_id].last_recording_url = recording_url]
               ELSE state
        st1 == IF known_participant
               THEN mark_completed(state, participant_id, recording_url,
                                   Outputs(call_sid, t))
               ELSE state
        logged == log_call_event(log,
                      AuditRow(participant_id, phone, call_sid, recording_url, t))
        skip(resp, ran) == [state |-> state, log |-> log, resp |-> resp,
                            pipeline |-> ran, marked |-> FALSE]
    IN  IF rec_status # "" /\ rec_status # "completed" THEN skip(200, FALSE)
        ELSE IF recording_url = NoUrl THEN skip(400, FALSE)
        ELSE IF ~completion_guard(known_participant, last_call_status, engaged)
        THEN skip(200, FALSE)
        ELSE IF ~download_ok
        THEN [state |-> st0, log |-> log, resp |-> 500, pipeline |-> FALSE,
              marked |-> FALSE]
        ELSE IF words < MIN_WORDS THEN skip(200, TRUE)
        ELSE [state |-> st1, log |-> logged.log,
              resp |-> IF logged.raised THEN 500 ELSE 200,
              pipeline |-> TRUE, marked |-> known_participant]

\* recording_done: [state, log, resp, pipeline, marked].  download_ok is
\* whether requests.get(...).raise_for_status() passes, words the number of
\* words of the transcript; pipeline says that the recording was fetched and
\* transcribed, marked that mark_completed ran and the ledger was saved.
recording_done(state, ord, log, call_sid, recording_url, raw_rec_status, download_ok, words, t) ==
    LET rec_status == Lower(raw_rec_status)
        participant_id == find_participant_by_callsid(state, ord, call_sid)
        known_participant == participant_id # NoPid
        phone == IF known_participant THEN state[participant_id].phone_e164 ELSE ""
        engaged == IF known_participant THEN state[participant_id].engaged ELSE FALSE
        last_call_status ==
            IF known_participant /\ state[participant_id].last_call_status # "none"
            THEN state[participant_id].last_call_status ELSE ""
        outputs == Outputs(call_sid, t)
        st1 == IF known_participant
               THEN mark_completed(state, participant_id, recording_url, outputs)
               ELSE state
        logged == log_call_event(log,
                      AuditRow(participant_id, phone, call_sid, recording_url, t))
        skip(resp, ran) == [state |-> state, log |-> log, resp |-> resp,
                            pipeline |-> ran, marked |-> FALSE]
    IN  IF rec_status # "" /\ rec_status # "completed" THEN skip(200, FALSE)
        ELSE IF recording_url = NoUrl THEN skip(400, FALSE)
        ELSE IF ~completion_guard(known_participant, last_call_status, engaged)
        THEN skip(200, FALSE)
        ELSE IF ~download_ok THEN skip(500, FALSE)
        ELSE IF words < MIN_WORDS THEN skip(200, TRUE)
        ELSE [state |-> st1, log |-> logged.log,
              resp |-> IF logged.raised THEN 500 ELSE 200,
              pipeline |-> TRUE, marked |-> known_participant]

----------------------------------------------------------------------------
(* app/background_worker.py *)

\* process_pending_recordings, one pass over the ledger whose pipeline
\* succeeds: a record is taken up only if its processing_status is "pending"
\* and it has an audio_path, and is then marked completed with the artifacts
\* made from that file (p.get("recording_url") as the url) and given
\* processing_status "completed".  A record without these keys (p.get gives
\* None) is skipped; no function of the program writes them.
process_pending_recordings(state) ==
    [p \in DOMAIN state |->
        IF /\ "processing_status" \in DOMAIN state[p]
           /\ "audio_path" \in DOMAIN state[p]
           /\ state[p].processing_status = "pending"
        THEN [mark_completed(state, p,
                             IF "recording_url" \in DOMAIN state[p]
                             THEN state[p].recording_url ELSE NoUrl,
                             {<<k, state[p].audio_path>> : k \in OutputKeys})[p]
                 EXCEPT !.processing_status = "completed"]
        ELSE state[p]]

----------------------------------------------------------------------------
(* The program as a state machine: each handler runs as one step. *)

\* what `last` records of a handler run: the participant the request was
\* correlated to (NoPid for none), the response code, the participants a tick
\* dialed, whether a recording-ready request was one the pipeline accepts
\* (status completed or absent, url present, download passing, transcript long
\* enough), whether it marked the participant completed, and the number of
\* audit rows held before it ran, and whether a recording-ready request got as
\* far as fetching and transcribing the recording; resp 400 of AdminSchedule
\* stands for the redirect that carries err=
Last(op, pid, resp, called, adequate, marked, rows0, pipeline) ==
    [op |-> op, pid |-> pid, resp |-> resp, called |-> called,
     adequate |-> adequate, marked |-> marked, rows0 |-> rows0,
     pipeline |-> pipeline, sid |-> NoSid]

NoLast == Last("init", NoPid, 0, {}, FALSE, FALSE, 0, FALSE)

\* no handler is between its load and its save
NoInflight == <<>>

\* the store-level model is not running: no file, no call in progress
NoDisk == <<>>
NoIo == <<>>

NoFn == [op |-> "init", pid |-> NoPid, arg |-> "", flag |-> FALSE, pre |-> <<>>,
         out |-> FALSE]

\* provider statuses of the status events of Spec: two retryable ones,
\* completed, one progress status and one status outside the table
EventStatuses == {"no-answer", "busy", "completed", "ringing", "queued"}

\* local times an administrator enters: empty, unparseable, or the New York
\* wall time that is RETRY_GAP in UTC
ScheduleInputs == {EmptyTime, BadTime, NaiveTime(RETRY_GAP - NY_UTC_OFFSET)}

\* word counts of a transcript
TranscriptWords == {MIN_WORDS - 1, MIN_WORDS}

\* the recording url the provider sends for a call
RecUrl(call_sid) == call_sid

Init ==
    /\ ledger = <<>>
    /\ order = <<>>
    /\ callLog = [header |-> FALSE, rows |-> <<>>]
    /\ now = 0
    /\ nextSid = 1
    /\ last = NoLast
    /\ heard = {}
    /\ fn = NoFn
    /\ placed = [p \in Participants |-> 0]
    /\ paused = FALSE
    /\ inflight = NoInflight
    /\ disk = NoDisk
    /\ io = NoIo

\* the loop of admin_upload_contacts over the rows of the file: [state, order]
RECURSIVE UpsertRows(_, _, _, _)
UpsertRows(state, ord, rows, i) ==
    IF i > Len(rows) THEN [state |-> state, order |-> ord]
    ELSE IF rows[i][1] = "" \/ rows[i][2] = "" THEN UpsertRows(state, ord, rows, i + 1)
    ELSE UpsertRows(upsert_participant(state, rows[i][1], rows[i][2]),
                    IF Has(state, rows[i][1]) THEN ord ELSE Append(ord, rows[i][1]),
                    rows, i + 1)

\* admin_upload_contacts
UploadContacts(rows) ==
    LET r == UpsertRows(ledger, order, rows, 1)
    IN  /\ ledger' = r.state
        /\ order' = r.order
        /\ last' = Last("upload_contacts", NoPid, 302, {}, FALSE, FALSE,
                        Len(callLog.rows), FALSE)
        /\ UNCHANGED <<callLog, now, nextSid, heard, fn, placed, aux>>

\* admin_schedule: [state, resp].  An empty time is refused before
\* schedule_participant runs, and its ValueError becomes an error redirect
\* (resp 400)
admin_schedule(state, pid, local_time) ==
    LET r == schedule_participant(state, pid, local_time)
    IN  IF local_time.kind = "empty" THEN [state |-> state, resp |-> 400]
        ELSE IF r.raised THEN [state |-> state, resp |-> 400]
        ELSE [state |-> r.state, resp |-> 302]

\* POST /admin/schedule
AdminSchedule(pid, local_time) ==
    LET r == admin_schedule(ledger, pid, local_time)
    IN  /\ ledger' = r.state
        /\ last' = Last("schedule", pid, r.resp,
                        {}, FALSE, FALSE, Len(callLog.rows), FALSE)
        /\ UNCHANGED <<order, callLog, now, nextSid, heard, fn, placed, aux>>

\* one run_once, from the scheduler loop (require_schedule = TRUE) or without
\* the schedule requirement; fails are the participants the provider rejects
RunOnce(require_schedule, fails) ==
    LET r == run_once(ledger, order, require_schedule, now, nextSid, fails)
    IN  /\ r.sid <= MaxSid + 1
        /\ ledger' = r.state
        /\ nextSid' = r.sid
        /\ last' = Last("run_once", NoPid,
                        IF r.raised THEN 500 ELSE 200, r.called, FALSE, FALSE,
                        Len(callLog.rows), FALSE)
        /\ heard' = IF r.state # ledger THEN heard \ r.called ELSE heard
        /\ placed' = [p \in Participants |->
                         IF p \in r.called THEN placed[p] + 1 ELSE placed[p]]
        /\ UNCHANGED <<order, callLog, now, fn, aux>>

\* the utterances that are a spoken answer, not silence or a filler
RealSpeech == {"ndiyo"}

\* the participant whose current call (the last one recorded for it) is call_sid
CurrentCallOf(call_sid) ==
    {p \in DOMAIN ledger : ledger[p].last_call_sid = call_sid}

\* POST /next
NextQuestion(call_sid, speech) ==
    /\ ledger' = next_question(ledger, order, call_sid, speech)
    /\ last' = [Last("next_question", find_participant_by_callsid(ledger, order, call_sid),
                     200, {}, FALSE, FALSE, Len(callLog.rows), FALSE)
                   EXCEPT !.sid = call_sid]
    /\ heard' = IF speech \in RealSpeech THEN heard \cup CurrentCallOf(call_sid) ELSE heard
    /\ UNCHANGED <<order, callLog, now, nextSid, fn, placed, aux>>

\* POST /call-status
CallStatus(call_sid, raw_status) ==
    /\ ledger' = call_status(ledger, order, call_sid, raw_status)
    /\ last' = [Last("call_status", find_participant_by_callsid(ledger, order, call_sid),
                     200, {}, FALSE, FALSE, Len(callLog.rows), FALSE)
                   EXCEPT !.sid = call_sid]
    /\ UNCHANGED <<order, callLog, now, nextSid, heard, fn, placed, aux>>

\* POST /recording-done
RecordingDone(call_sid, recording_url, rec_status, download_ok, words) ==
    LET r == recording_done(ledger, order, callLog, call_sid, recording_url,
                            rec_status, download_ok, words, now)
    IN  /\ ledger' = r.state
        /\ callLog' = r.log
        /\ last' = Last("recording_done",
                        find_participant_by_callsid(ledger, order, call_sid), r.resp,
                        {},
                        /\ Lower(rec_status) \in {"", "completed"}
                        /\ recording_url # NoUrl
                        /\ download_ok
                        /\ words >= MIN_WORDS,
                        r.marked, Len(callLog.rows), r.pipeline)
        /\ UNCHANGED <<order, now, nextSid, heard, fn, placed, aux>>

\* one pass of the loop of process_pending_recordings
ProcessPendingRecordings ==
    /\ ledger' = process_pending_recordings(ledger)
    /\ last' = Last("process_pending_recordings", NoPid, 0, {}, FALSE, FALSE,
                    Len(callLog.rows), FALSE)
    /\ UNCHANGED <<order, callLog, now, nextSid, heard, fn, placed, aux>>

\* time passes
Advance ==
    /\ now < MaxTicks * ClockStep
    /\ now' = now + ClockStep
    /\ last' = Last("advance", NoPid, 0, {}, FALSE, FALSE, Len(callLog.rows), FALSE)
    /\ UNCHANGED <<ledger, order, callLog, nextSid, heard, fn, placed, aux>>

\* session ids of incoming requests: those the provider has handed out, and
\* one it has not (stray traffic)
EventSids == {sid \in Sids : sid <= nextSid}

Next ==
    \/ \E rows \in ContactFiles : UploadContacts(rows)
    \/ \E pid \in Participants, lt \in ScheduleInputs :
          AdminSchedule(pid, lt)
    \/ \E rs \in BOOLEAN, fails \in SUBSET DOMAIN ledger : RunOnce(rs, fails)
    \/ \E sid \in EventSids, speech \in Utterances : NextQuestion(sid, speech)
    \/ \E sid \in EventSids, cs \in EventStatuses : CallStatus(sid, cs)
    \/ \E sid \in EventSids, has_url \in BOOLEAN, rec \in RecStatuses,
          dl \in BOOLEAN, words \in TranscriptWords :
          RecordingDone(sid, IF has_url THEN RecUrl(sid) ELSE NoUrl, rec, dl, words)
    \/ ProcessPendingRecordings
    \/ Advance

Spec == Init /\ [][Next]_vars

----------------------------------------------------------------------------
(* The dispatcher with a batch of two participants: uploads, scheduling,    *)
(* the pause switch, ticks and the clock.                                   *)

\* a contacts file with two rows
BatchFiles == { << <<"p1", "+254700000001">>, <<"p2", "+254700000002">> >> }

\* set_paused: app.state is imported for it by the dashboard and does not
\* define it; the flag it persists
set_paused(flag) == flag

\* admin_pause
AdminPause ==
    /\ paused' = set_paused(TRUE)
    /\ last' = Last("pause", NoPid, 302, {}, FALSE, FALSE, Len(callLog.rows), FALSE)
    /\ UNCHANGED <<ledger, order, callLog, now, nextSid, heard, fn, placed,
                   inflight, disk, io>>

\* admin_resume
AdminResume ==
    /\ paused' = set_paused(FALSE)
    /\ last' = Last("resume", NoPid, 302, {}, FALSE, FALSE, Len(callLog.rows), FALSE)
    /\ UNCHANGED <<ledger, order, callLog, now, nextSid, heard, fn, placed,
                   inflight, disk, io>>

\* admin_dial_now of app/twilio_handler.py: run_once(force=True), and run_once
\* has no parameter force, so the call raises TypeError before anything is
\* loaded or dialed: [state, sid, raised, called]
admin_dial_now(state, ord, t, sid, fails) ==
    [state |-> state, sid |-> sid, raised |-> TRUE, called |-> {}]

\* admin_dial_now of app/dashboard.py: run_once() with its default
\* require_schedule=True; an exception of the tick is swallowed
dashboard_admin_dial_now(state, ord, t, sid, fails) ==
    [run_once(state, ord, TRUE, t, sid, fails) EXCEPT !.raised = FALSE]

\* POST /admin/dial_now, served by the route of app/twilio_handler.py
\* ("handler") or by the blueprint of app/dashboard.py ("dashboard")
AdminDialNow(route, fails) ==
    LET r == IF route = "dashboard"
             THEN dashboard_admin_dial_now(ledger, order, now, nextSid, fails)
             ELSE admin_dial_now(ledger, order, now, nextSid, fails)
    IN  /\ r.sid <= MaxSid + 1
        /\ ledger' = r.state
        /\ nextSid' = r.sid
        /\ last' = Last("dial_now", NoPid, IF r.raised THEN 500 ELSE 302, r.called,
                        FALSE, FALSE, Len(callLog.rows), FALSE)
        /\ heard' = IF r.state # ledger THEN heard \ r.called ELSE heard
        /\ placed' = [p \in Participants |->
                         IF p \in r.called THEN placed[p] + 1 ELSE placed[p]]
        /\ UNCHANGED <<order, callLog, now, fn, aux>>

\* the participants a tick finds eligible in the ledger it loads
Eligible(state, require_schedule, t) ==
    {p \in DOMAIN state :
        state[p].phone_e164 # "" /\ can_call(state, p, require_schedule, t)}

NextBatch ==
    \/ \E rows \in BatchFiles : UploadContacts(rows)
    \/ \E pid \in Participants, lt \in ScheduleInputs : AdminSchedule(pid, lt)
    \/ AdminPause
    \/ AdminResume
    \/ \E rs \in BOOLEAN, fails \in SUBSET DOMAIN ledger : RunOnce(rs, fails)
    \/ \E route \in {"handler", "dashboard"}, fails \in SUBSET DOMAIN ledger :
          AdminDialNow(route, fails)
    \/ Advance

SpecBatch == Init /\ [][NextBatch]_vars

----------------------------------------------------------------------------
(* Handlers running concurrently (the scheduler thread and the threaded     *)
(* request workers): each handler loads the whole ledger, changes its copy  *)
(* in memory and later saves the whole copy back.  A handler is in flight   *)
(* between its load_participants and its save_participants.                 *)

\* the threads that run handlers
Handlers == {"h1", "h2"}

\* the provider hands out ConcMaxSid session ids at most in SpecConc
ConcMaxSid == 2

\* the provider status of the status events of SpecConc
ConcStatuses == {"completed"}

Idle(h) == h \notin DOMAIN inflight

\* what a handler holds between load and save: the ledger it will write, and
\* the audit row it hands to log_call_event after the save (logs says whether)
Loaded(op, pid, state, ord, logs, row) ==
    [op |-> op, pid |-> pid, state |-> state, order |-> ord, logs |-> logs,
     row |-> row]

Hold(h, rec) ==
    [k \in DOMAIN inflight \cup {h} |-> IF k = h THEN rec ELSE inflight[k]]

Release(h) == [k \in DOMAIN inflight \ {h} |-> inflight[k]]

NoRow == AuditRow(NoPid, "", NoSid, NoUrl, 0)

\* next_question up to its save_participants; a request that marks nobody
\* engaged ends here
LoadNextQuestion(h, call_sid, speech) ==
    LET pid == find_participant_by_callsid(ledger, order, call_sid)
        marks == /\ call_sid # NoSid
                 /\ looks_like_real_speech(Strip(speech))
                 /\ pid # NoPid
    IN  /\ Idle(h)
        /\ inflight' = IF marks
                        THEN Hold(h, Loaded("next_question", pid,
                                            next_question(ledger, order, call_sid, speech),
                                            order, FALSE, NoRow))
                        ELSE inflight
        /\ UNCHANGED <<ledger, order, callLog, now, nextSid, last, heard, fn,
                       placed, paused, disk, io>>

\* call_status up to its save_participants; an unknown session id ends here
LoadCallStatus(h, call_sid, raw_status) ==
    LET pid == find_participant_by_callsid(ledger, order, call_sid)
    IN  /\ Idle(h)
        /\ inflight' = IF pid # NoPid
                        THEN Hold(h, Loaded("call_status", pid,
                                            call_status(ledger, order, call_sid, raw_status),
                                            order, FALSE, NoRow))
                        ELSE inflight
        /\ UNCHANGED <<ledger, order, callLog, now, nextSid, last, heard, fn,
                       placed, paused, disk, io>>

\* recording_done, for a completed recording that downloads and transcribes
\* to MIN_WORDS words, up to its save_participants; a request that stops at a
\* guard ends here, and so does one for an unknown session id, after its
\* log_call_event
LoadRecordingDone(h, call_sid) ==
    LET pid == find_participant_by_callsid(ledger, order, call_sid)
        r == recording_done(ledger, order, callLog, call_sid, RecUrl(call_sid),
                            "Completed", TRUE, MIN_WORDS, now)
        phone == IF pid # NoPid THEN ledger[pid].phone_e164 ELSE ""
    IN  /\ Idle(h)
        /\ inflight' = IF r.marked
                        THEN Hold(h, Loaded("recording_done", pid, r.state, order, TRUE,
                                            AuditRow(pid, phone, call_sid,
                                                     RecUrl(call_sid), now)))
                        ELSE inflight
        /\ callLog' = IF r.marked THEN callLog ELSE r.log
        /\ UNCHANGED <<ledger, order, now, nextSid, last, heard, fn, placed,
                       paused, disk, io>>

\* run_once up to its save_participants: the ledger is loaded and the calls
\* are placed with the provider; a tick that places no call ends here
LoadRunOnce(h, require_schedule) ==
    LET r == run_once(ledger, order, require_schedule, now, nextSid, {})
    IN  /\ Idle(h)
        /\ r.sid <= ConcMaxSid + 1
        /\ inflight' = IF r.called # {}
                        THEN Hold(h, Loaded("run_once", NoPid, r.state, order, FALSE, NoRow))
                        ELSE inflight
        /\ nextSid' = r.sid
        /\ placed' = [p \in Participants |->
                         IF p \in r.called THEN placed[p] + 1 ELSE placed[p]]
        /\ UNCHANGED <<ledger, order, callLog, now, last, heard, fn, paused, disk, io>>

\* faulty variant of Save: only the record of the handler's own participant is
\* written, the records of the others are kept as they are on disk
Save_own_record_only(h) ==
    /\ ~Idle(h)
    /\ ledger' = [p \in DOMAIN inflight[h].state |->
                     IF /\ p \in DOMAIN ledger
                        /\ inflight[h].op # "run_once"
                        /\ p # inflight[h].pid
                     THEN ledger[p] ELSE inflight[h].state[p]]
    /\ order' = inflight[h].order
    /\ callLog' = IF inflight[h].logs
                   THEN log_call_event(callLog, inflight[h].row).log
                   ELSE callLog
    /\ inflight' = Release(h)
    /\ UNCHANGED <<now, nextSid, last, heard, fn, placed, paused, disk, io>>

\* save_participants of a handler in flight, and what the handler does after
\* it (recording_done: log_call_event)
Save(h) ==
    /\ ~Idle(h)
    /\ ledger' = inflight[h].state
    /\ order' = inflight[h].order
    /\ callLog' = IF inflight[h].logs
                   THEN log_call_event(callLog, inflight[h].row).log
                   ELSE callLog
    /\ inflight' = Release(h)
    /\ UNCHANGED <<now, nextSid, last, heard, fn, placed, paused, disk, io>>

NextConc ==
    \/ \E rows \in ContactFiles \cup BatchFiles : UploadContacts(rows)
    \/ \E h \in Handlers, sid \in EventSids, speech \in Utterances :
          LoadNextQuestion(h, sid, speech)
    \/ \E h \in Handlers, sid \in EventSids, cs \in ConcStatuses :
          LoadCallStatus(h, sid, cs)
    \/ \E h \in Handlers, sid \in EventSids : LoadRecordingDone(h, sid)
    \/ \E h \in Handlers, rs \in BOOLEAN : LoadRunOnce(h, rs)
    \/ \E h \in Handlers : Save(h)

SpecConc == Init /\ [][NextConc]_vars

----------------------------------------------------------------------------
(* The store: participants.json, participants.json.tmp and                  *)
(* participants.json.corrupt as names of files, save_participants as the    *)
(* steps open / write / close / replace, load_participants as one read.     *)

\* the threads that call save_participants
Savers == {"s1", "s2"}

EmptyLedger == [p \in {} |-> DEFAULT]

\* the keys migrate_add_schedule_fields fills: those of DEFAULT, which has no
\* phone_e164
DefaultKeys == DOMAIN DEFAULT \ {"phone_e164"}

\* json.dump of one field: None becomes null, everything else the JSON value
\* of the same reading
IsNone(k, v) ==
    CASE k \in {"last_call_sid"} -> v = NoSid
      [] k \in {"last_recording_url"} -> v = NoUrl
      [] k \in {"last_call_status"} -> v = "none"
      [] k \in {"last_call_time", "scheduled_time_local", "scheduled_time_utc"} ->
            v.kind = "none"
      [] OTHER -> FALSE

NoneOf(k) ==
    CASE k \in {"last_call_sid"} -> NoSid
      [] k \in {"last_recording_url"} -> NoUrl
      [] k \in {"last_call_status"} -> "none"
      [] OTHER -> NoTime

\* json.dump(state): the document, participant by participant, key by key
ToJson(state) ==
    [p \in DOMAIN state |->
        [k \in DOMAIN state[p] |->
            IF IsNone(k, state[p][k]) THEN <<"null">> ELSE <<"value", state[p][k]>>]]

\* json.loads(content) of a document json.dump wrote
FromJson(doc) ==
    [p \in DOMAIN doc |->
        [k \in DOMAIN doc[p] |->
            IF doc[p][k][1] = "null" THEN NoneOf(k) ELSE doc[p][k][2]]]

\* faulty variant of migrate_add_schedule_fields: only the schedule fields are filled
migrate_only_schedule_fields(state) ==
    [p \in DOMAIN state |->
        [k \in DOMAIN state[p] \cup {"scheduled_time_local", "scheduled_time_utc"} |->
            IF k \in DOMAIN state[p] THEN state[p][k] ELSE DEFAULT[k]]]

\* migrate_add_schedule_fields: the ledger with every missing key of DEFAULT
\* filled in (changed is: the result differs from state)
migrate_add_schedule_fields(state) ==
    [p \in DOMAIN state |->
        [k \in DOMAIN state[p] \cup DefaultKeys |->
            IF k \in DOMAIN state[p] THEN state[p][k] ELSE DEFAULT[k]]]

\* the content of a file: kind "doc" is a complete document json.dump wrote,
\* "truncated" a file just opened for writing, "partial" a document written in
\* part (or by two writers at once), "empty" an empty or blank file, "badjson"
\* text that is no JSON, "notobject" valid JSON that is no object of objects
\* (such as []), "badutf8" bytes that are no UTF-8, "absent" no file under the
\* name.  While a file is being written, owner is the last thread that opened
\* it for writing and dirty whether another thread wrote into it since.
Content(kind, doc, owner, dirty) ==
    [kind |-> kind, doc |-> doc, owner |-> owner, dirty |-> dirty]

Blank == Content("empty", ToJson(EmptyLedger), "", FALSE)

Absent == Content("absent", ToJson(EmptyLedger), "", FALSE)

\* ledgers held in memory or left on disk: a fresh participant, a participant
\* written by a version without the later fields, a participant in its first
\* call
StoreLedgers ==
    { [p \in {"p1"} |-> [DEFAULT EXCEPT !.phone_e164 = "+254700000001"]],
      [p \in {"p1"} |-> [phone_e164 |-> "+254700000001", status |-> "pending",
                          attempts |-> 1]],
      [p \in {"p1"} |-> [DEFAULT EXCEPT !.phone_e164 = "+254700000001",
                                        !.status = "in_progress",
                                        !.attempts = 1,
                                        !.last_call_sid = 1,
                                        !.last_call_time = NaiveTime(0)]] }

\* the ledgers the threads save
SavedLedgers == {x \in StoreLedgers : x["p1"].attempts = 1}

\* what the environment can leave in participants.json
CorruptKinds == {"empty", "badjson", "notobject", "badutf8"}

\* where the file a thread holds open is now: under the tmp name, under
\* participants.json, or under no name any more ("orphan"); "none" when the
\* thread holds no file open.  os.replace moves the file under the tmp name
\* to participants.json and the one that was there loses its name.
AfterReplace == [none |-> "none", tmp |-> "main", main |-> "orphan", orphan |-> "orphan"]

\* participants.json is renamed to .corrupt or removed
AfterUnlink == [none |-> "none", tmp |-> "tmp", main |-> "orphan", orphan |-> "orphan"]

Stay == [none |-> "none", tmp |-> "tmp", main |-> "main", orphan |-> "orphan"]

ReTag(procs, f) ==
    [t \in DOMAIN procs |->
        IF t \in Savers THEN [procs[t] EXCEPT !.at = f[procs[t].at]] ELSE procs[t]]

\* save_participants run without interruption: open the tmp name for writing
\* (the file under it, if any, is truncated and reused), write, close,
\* os.replace onto participants.json
save_whole(d, state) ==
    [d EXCEPT !.main = Content("doc", ToJson(state), "", FALSE), !.tmp = Absent]

\* faulty variant of load_participants: the migrated ledger is returned but not saved
load_participants_keeps_old_document(d) ==
    LET c == d.main
        st == FromJson(c.doc)
        empty(raised, after, moved) ==
            [state |-> EmptyLedger, raised |-> raised, disk |-> after,
             seen |-> c.kind, moved |-> moved]
    IN  CASE c.kind \in {"absent", "empty", "truncated"} -> empty(FALSE, d, Stay)
          [] c.kind \in {"partial", "badjson"} ->
                empty(FALSE, [d EXCEPT !.main = Absent, !.corrupt = TRUE], AfterUnlink)
          [] c.kind \in {"notobject", "badutf8"} -> empty(TRUE, d, Stay)
          [] OTHER ->
                [state |-> migrate_add_schedule_fields(st), raised |-> FALSE,
                 disk |-> d, seen |-> c.kind, moved |-> Stay]

\* load_participants: [state, raised, disk, seen, moved].  seen is the kind of
\* content read, raised whether an exception reaches the caller, moved how
\* the names of the files changed: json.JSONDecodeError and OSError are
\* caught and the file is renamed to .corrupt; the AttributeError / TypeError
\* of migrate_add_schedule_fields on JSON that is no object of objects and
\* the UnicodeDecodeError of f.read() are not caught.
load_participants(d) ==
    LET c == d.main
        st == FromJson(c.doc)
        migrated == migrate_add_schedule_fields(st)
        empty(raised, after, moved) ==
            [state |-> EmptyLedger, raised |-> raised, disk |-> after,
             seen |-> c.kind, moved |-> moved]
    IN  CASE c.kind \in {"absent", "empty", "truncated"} -> empty(FALSE, d, Stay)
          [] c.kind \in {"partial", "badjson"} ->
                empty(FALSE, [d EXCEPT !.main = Absent, !.corrupt = TRUE], AfterUnlink)
          [] c.kind \in {"notobject", "badutf8"} -> empty(TRUE, d, Stay)
          [] OTHER ->
                [state |-> migrated, raised |-> FALSE,
                 disk |-> IF migrated # st THEN save_whole(d, migrated) ELSE d,
                 seen |-> c.kind,
                 moved |-> IF migrated # st THEN AfterReplace ELSE Stay]

\* a thread not inside save_participants
SaverIdle == [pc |-> "idle", at |-> "none", state |-> EmptyLedger]

\* the caller of load_participants before its first call; after a call, seen,
\* state and raised are what load_participants returned, and for a complete
\* document before and stored are participants.json as the call found it and
\* as the call left it
ReaderIdle ==
    [pc |-> "idle", seen |-> "absent", state |-> EmptyLedger, raised |-> FALSE,
     before |-> Blank, stored |-> Blank]

\* a ledger file exists, written by this or an earlier version of the program
InitStore ==
    /\ ledger = <<>>
    /\ order = <<>>
    /\ callLog = [header |-> FALSE, rows |-> <<>>]
    /\ now = 0
    /\ nextSid = 1
    /\ last = NoLast
    /\ heard = {}
    /\ fn = NoFn
    /\ placed = [p \in Participants |-> 0]
    /\ paused = FALSE
    /\ inflight = NoInflight
    /\ \E x \in StoreLedgers :
          disk = [main |-> Content("doc", ToJson(x), "", FALSE), tmp |-> Absent,
                  corrupt |-> FALSE]
    /\ io = [t \in Savers \cup {"r"} |-> IF t = "r" THEN ReaderIdle ELSE SaverIdle]

StoreUnchanged ==
    UNCHANGED <<ledger, order, callLog, now, nextSid, last, heard, fn, placed,
                paused, inflight>>

\* save_participants: open(tmp_path, "w"), which creates the file or
\* truncates the one already under the name
SaveOpen(s, state) ==
    /\ io[s].pc = "idle"
    /\ io' = [io EXCEPT ![s] = [pc |-> "opened", at |-> "tmp", state |-> state]]
    /\ disk' = [disk EXCEPT !.tmp = Content("truncated", ToJson(EmptyLedger), s, FALSE)]
    /\ StoreUnchanged

\* a write of thread s into the file it holds open: part of its document, or
\* with closing the rest of it; a file another thread opened or wrote into
\* since holds no document
Written(d, s, at, closing) ==
    LET c == d[at]
        mine == c.owner = s /\ ~c.dirty
    IN  IF at \notin {"tmp", "main"} THEN d
        ELSE [d EXCEPT ![at] =
                 IF mine /\ closing THEN Content("doc", ToJson(io[s].state), "", FALSE)
                 ELSE Content("partial", ToJson(EmptyLedger), c.owner, ~mine)]

\* save_participants: json.dump, the first part of the document reaches the file
SaveWrite(s) ==
    /\ io[s].pc = "opened"
    /\ io' = [io EXCEPT ![s].pc = "writing"]
    /\ disk' = Written(disk, s, io[s].at, FALSE)
    /\ StoreUnchanged

\* save_participants: the rest of the document is written and the file closed
SaveClose(s) ==
    /\ io[s].pc = "writing"
    /\ io' = [io EXCEPT ![s].pc = "closed", ![s].at = "none"]
    /\ disk' = Written(disk, s, io[s].at, TRUE)
    /\ StoreUnchanged

\* save_participants: os.replace(tmp_path, PARTICIPANTS_PATH), which moves
\* whatever file is under the tmp name (FileNotFoundError when there is none)
SaveReplace(s) ==
    /\ io[s].pc = "closed"
    /\ IF disk.tmp.kind = "absent"
       THEN /\ io' = [io EXCEPT ![s] = SaverIdle]
            /\ UNCHANGED disk
       ELSE /\ io' = ReTag([io EXCEPT ![s] = SaverIdle], AfterReplace)
            /\ disk' = [disk EXCEPT !.main = disk.tmp, !.tmp = Absent]
    /\ StoreUnchanged

\* load_participants
Load ==
    LET r == load_participants(disk)
    IN  /\ disk' = r.disk
        /\ io' = [ReTag(io, r.moved) EXCEPT !["r"] =
                     [pc |-> "loaded", seen |-> r.seen, state |-> r.state,
                      raised |-> r.raised,
                      before |-> IF r.seen = "doc" THEN disk.main ELSE Blank,
                      stored |-> IF r.seen = "doc" THEN r.disk.main ELSE Blank]]
        /\ StoreUnchanged

\* participants.json is damaged or overwritten from outside the program
Tamper(kind) ==
    /\ disk' = [disk EXCEPT !.main = Content(kind, ToJson(EmptyLedger), "", FALSE)]
    /\ UNCHANGED io
    /\ StoreUnchanged

\* participants.json is removed (reset_state, or by hand)
Remove ==
    /\ disk.main.kind # "absent"
    /\ disk' = [disk EXCEPT !.main = Absent]
    /\ io' = ReTag(io, AfterUnlink)
    /\ StoreUnchanged

NextStore ==
    \/ \E s \in Savers, x \in SavedLedgers : SaveOpen(s, x)
    \/ \E s \in Savers : SaveWrite(s)
    \/ \E s \in Savers : SaveClose(s)
    \/ \E s \in Savers : SaveReplace(s)
    \/ Load
    \/ \E kind \in CorruptKinds : Tamper(kind)
    \/ Remove

SpecStore == InitStore /\ [][NextStore]_vars

----------------------------------------------------------------------------
(* Function-level harness: the functions of app/state.py and the status     *)
(* handler applied once to a ledger drawn from a bounded set of records.    *)

\* the clock reading of the harness
FnNow == 2 * RETRY_GAP

\* last_call_time values: unset, unparseable, exactly RETRY_GAP ago, one
\* second less than RETRY_GAP ago
FnLastTimes ==
    {NoTime, BadTime, NaiveTime(FnNow - RETRY_GAP), NaiveTime(FnNow - RETRY_GAP + 1)}

\* scheduled_time_utc values: unset, empty, unparseable; one second ago, now
\* and one hour ahead with a trailing Z; one second ago without designator;
\* and, with the explicit offset -05:00, an instant one second ago and an
\* instant five hours ahead whose wall reading is one second ago
FnSchedules ==
    {NoTime, EmptyTime, BadTime,
     ZTime(FnNow - 1), ZTime(FnNow), ZTime(FnNow + RETRY_GAP),
     NaiveTime(FnNow - 1),
     OffsetTime(FnNow - 1 - NY_UTC_OFFSET, 0 - NY_UTC_OFFSET),
     OffsetTime(FnNow - 1, 0 - NY_UTC_OFFSET)}

FnRecords ==
    { [DEFAULT EXCEPT !.phone_e164 = "+254700000001",
                      !.status = s,
                      !.attempts = a,
                      !.engaged = e,
                      !.last_call_sid = IF a = 0 THEN NoSid ELSE 1,
                      !.last_call_time = lct,
                      !.scheduled_time_utc = sch] :
        s \in Statuses, a \in 0 .. MAX_ATTEMPTS + 1, e \in BOOLEAN,
        lct \in FnLastTimes, sch \in FnSchedules }

Fn(op, pid, arg, flag, out) ==
    [op |-> op, pid |-> pid, arg |-> arg, flag |-> flag, pre |-> ledger, out |-> out]

InitFn ==
    /\ ledger \in {[p \in {"p1"} |-> r] : r \in FnRecords}
    /\ order = <<"p1">>
    /\ callLog = [header |-> FALSE, rows |-> <<>>]
    /\ now = FnNow
    /\ nextSid = 2
    /\ last = NoLast
    /\ heard = {}
    /\ fn = NoFn
    /\ placed = [p \in Participants |-> 0]
    /\ paused = FALSE
    /\ inflight = NoInflight
    /\ disk = NoDisk
    /\ io = NoIo

FnCanCall(pid, require_schedule) ==
    /\ fn.op = "init"
    /\ fn' = Fn("can_call", pid, "", require_schedule,
                can_call(ledger, pid, require_schedule, now))
    /\ UNCHANGED <<ledger, order, callLog, now, nextSid, last, heard, placed, aux>>

FnMarkCallStarted(pid) ==
    /\ fn.op = "init"
    /\ ledger' = mark_call_started(ledger, pid, nextSid, now)
    /\ nextSid' = nextSid + 1
    /\ fn' = Fn("mark_call_started", pid, "", FALSE, FALSE)
    /\ UNCHANGED <<order, callLog, now, last, heard, placed, aux>>

\* mark_call_result is called for a participant found by its session id
FnMarkCallResult(pid, raw_status) ==
    /\ fn.op = "init"
    /\ ledger[pid].last_call_sid # NoSid
    /\ ledger' = mark_call_result(ledger, pid, raw_status)
    /\ fn' = Fn("mark_call_result", pid, raw_status, FALSE, FALSE)
    /\ UNCHANGED <<order, callLog, now, nextSid, last, heard, placed, aux>>

FnCallStatus(call_sid, raw_status) ==
    /\ fn.op = "init"
    /\ ledger' = call_status(ledger, order, call_sid, raw_status)
    /\ fn' = Fn("call_status", find_participant_by_callsid(ledger, order, call_sid),
                raw_status, FALSE, FALSE)
    /\ UNCHANGED <<order, callLog, now, nextSid, last, heard, placed, aux>>

\* one run_once on the ledger of the harness; out is the set of participants
\* it dialed
FnRunOnce(require_schedule) ==
    LET r == run_once(ledger, order, require_schedule, now, nextSid, {})
    IN  /\ fn.op = "init"
        /\ ledger' = r.state
        /\ nextSid' = r.sid
        /\ placed' = [p \in Participants |->
                         IF p \in r.called THEN placed[p] + 1 ELSE placed[p]]
        /\ fn' = Fn("run_once", NoPid, "", require_schedule, r.called)
        /\ UNCHANGED <<order, callLog, now, last, heard, aux>>

NextFn ==
    \/ \E pid \in Participants, rs \in BOOLEAN : FnCanCall(pid, rs)
    \/ \E rs \in BOOLEAN : FnRunOnce(rs)
    \/ FnMarkCallStarted("p1")
    \/ \E raw \in RawStatuses : FnMarkCallResult("p1", raw)
    \/ \E raw \in RawStatuses : FnCallStatus(1, raw)

SpecFn == InitFn /\ [][NextFn]_vars

----------------------------------------------------------------------------
(* Properties *)

Terminal == {"completed", "failed"}

\* the instant a parseable timestamp string denotes
Instant(s) == IF s.kind = "offset" THEN s.wall - s.off ELSE s.wall

Parseable(s) == s.kind \in {"z", "naive", "offset"}

\* the harness applied can_call to a participant of the ledger
CanCallOn(require_schedule) ==
    /\ fn.op = "can_call"
    /\ fn.flag = require_schedule
    /\ Has(fn.pre, fn.pid)

\* C1: under Spec, whatever ticks and dial-now runs have happened, every
\* participant of the ledger has attempts <= MAX_ATTEMPTS.
C1_AttemptsBounded ==
    \A p \in DOMAIN ledger : ledger[p].attempts <= MAX_ATTEMPTS

\* a dispatch has just dialed a participant for the MAX_ATTEMPTS-th time
C1_Witness ==
    /\ last.op = "run_once"
    /\ \E p \in last.called : ledger[p].attempts = MAX_ATTEMPTS

\* C2: under Spec, a status event never changes the status or the attempts of
\* a participant that is completed or failed.
C2_TerminalIsSink ==
    [][last'.op = "call_status" =>
        \A p \in DOMAIN ledger :
            ledger[p].status \in Terminal =>
                /\ ledger'[p].status = ledger[p].status
                /\ ledger'[p].attempts = ledger[p].attempts]_vars

\* C3: under SpecFn, can_call is FALSE, with the schedule required or not, for
\* a participant that is completed or failed and for a participant with
\* attempts >= MAX_ATTEMPTS, whatever its schedule and last_call_time.
C3_TerminalOrCappedNotEligible ==
    (fn.op = "can_call" /\ Has(fn.pre, fn.pid)) =>
        ((fn.pre[fn.pid].status \in Terminal \/ fn.pre[fn.pid].attempts >= MAX_ATTEMPTS)
            => fn.out = FALSE)

\* a failed participant under the cap, with a due schedule and no earlier
\* call, refused when the schedule is not required
C3_Witness ==
    /\ CanCallOn(FALSE)
    /\ fn.pre[fn.pid].status = "failed"
    /\ fn.pre[fn.pid].attempts < MAX_ATTEMPTS
    /\ fn.pre[fn.pid].scheduled_time_utc = ZTime(now - 1)
    /\ fn.pre[fn.pid].last_call_time = NoTime
    /\ fn.out = FALSE

C5_NormalNeedsDueSchedule ==
    (fn.op = "can_call" /\ fn.flag = TRUE) =>
        /\ fn.out = TRUE =>
              /\ Has(fn.pre, fn.pid)
              /\ Parseable(fn.pre[fn.pid].scheduled_time_utc)
              /\ Instant(fn.pre[fn.pid].scheduled_time_utc) <= now
        /\ \A p \in {fn.pre[q] : q \in DOMAIN fn.pre \cap {fn.pid}} :
              (p.status = "pending" /\ p.attempts = 0 /\ p.last_call_time = NoTime) =>
                  /\ p.scheduled_time_utc = ZTime(now - 1) => fn.out = TRUE
                  /\ p.scheduled_time_utc \in {NoTime, BadTime, ZTime(now + RETRY_GAP)}
                        => fn.out = FALSE

\* the pending participant of scenario A, scheduled one second ago, found
\* eligible with the schedule required
C5_Witness ==
    /\ CanCallOn(TRUE)
    /\ fn.pre[fn.pid].status = "pending"
    /\ fn.pre[fn.pid].attempts = 0
    /\ fn.pre[fn.pid].last_call_time = NoTime
    /\ fn.pre[fn.pid].scheduled_time_utc = ZTime(now - 1)
    /\ fn.out = TRUE

\* C6: under SpecFn, mark_call_started(pid, sid) leaves the participant with
\* status in_progress, engaged FALSE, attempts one more than before,
\* last_call_time the clock reading and last_call_sid the given session id.
C6_MarkCallStarted ==
    fn.op = "mark_call_started" =>
        /\ ledger[fn.pid].status = "in_progress"
        /\ ledger[fn.pid].engaged = FALSE
        /\ ledger[fn.pid].attempts = fn.pre[fn.pid].attempts + 1
        /\ ledger[fn.pid].last_call_time = NaiveTime(now)
        /\ ledger[fn.pid].last_call_sid = nextSid - 1

\* mark_call_started has run on a pending, engaged participant with one attempt
C6_Witness ==
    /\ fn.op = "mark_call_started"
    /\ fn.pre[fn.pid].status = "pending"
    /\ fn.pre[fn.pid].engaged = TRUE
    /\ fn.pre[fn.pid].attempts = 1
    /\ ledger[fn.pid].attempts = 2

\* C7 as stated: under SpecFn, mark_call_result with "completed" on a
\* participant with engaged = FALSE yields status pending.
C7_MarkCallResultCompletedPending ==
    (/\ fn.op = "mark_call_result"
     /\ fn.arg = "completed"
     /\ fn.pre[fn.pid].engaged = FALSE) => ledger[fn.pid].status = "pending"

\* C7 amended: under SpecFn, the call-status handler (mark_call_result followed
\* by the handler's check of engaged) given "completed" for a participant with
\* engaged = FALSE yields status pending; mark_call_result alone yields
\* in_progress, or leaves completed as it is.
C7_CompletedStatusEventPending ==
    /\ (/\ fn.op = "call_status"
        /\ fn.pid # NoPid
        /\ fn.arg \in {"completed", "Completed "}
        /\ fn.pre[fn.pid].engaged = FALSE) => ledger[fn.pid].status = "pending"
    /\ (/\ fn.op = "mark_call_result"
        /\ fn.arg \in {"completed", "Completed "}
        /\ fn.pre[fn.pid].engaged = FALSE) =>
            ledger[fn.pid].status =
                IF fn.pre[fn.pid].status = "completed" THEN "completed" ELSE "in_progress"

\* the status handler has sent an in_progress participant without engagement
\* back to pending on "completed"
C7_Witness ==
    /\ fn.op = "call_status"
    /\ fn.pid # NoPid
    /\ fn.arg = "completed"
    /\ fn.pre[fn.pid].status = "in_progress"
    /\ fn.pre[fn.pid].engaged = FALSE
    /\ ledger[fn.pid].status = "pending"

\* C8: under SpecFn, for each of no-answer, busy, failed and canceled,
\* mark_call_result (alone and within the call-status handler) yields status
\* failed when attempts >= MAX_ATTEMPTS and pending otherwise.
C8_RetryableFailure ==
    (/\ fn.op \in {"mark_call_result", "call_status"}
     /\ fn.pid # NoPid
     /\ fn.arg \in {"no-answer", "busy", "failed", "canceled"}) =>
        ledger[fn.pid].status =
            IF fn.pre[fn.pid].attempts >= MAX_ATTEMPTS THEN "failed" ELSE "pending"

\* mark_call_result("busy") has failed an in_progress participant at the cap
C8_Witness ==
    /\ fn.op = "mark_call_result"
    /\ fn.arg = "busy"
    /\ fn.pre[fn.pid].status = "in_progress"
    /\ fn.pre[fn.pid].attempts = MAX_ATTEMPTS
    /\ ledger[fn.pid].status = "failed"

\* C9: under Spec, a participant is completed only if a real answer was heard
\* on its current call: in an attempt without engagement no status event and
\* no recording-ready event marks it completed.
C9_NoEngagementNoCompletion ==
    \A p \in DOMAIN ledger : ledger[p].status = "completed" => p \in heard

\* scenario B: the current call got status completed, nothing was heard, and a
\* recording-ready event with an adequate recording has just been handled
C9_Witness ==
    /\ last.op = "recording_done"
    /\ last.pid # NoPid
    /\ last.adequate
    /\ last.pid \notin heard
    /\ ledger[last.pid].last_call_status = "completed"
    /\ ledger[last.pid].status = "pending"

\* C10: under Spec, when an adequate recording-ready event is handled for a
\* participant who was heard on the current call and whose call got status
\* completed, the participant is completed and the call log holds exactly one
\* audit row more than before.
C10_ScenarioC ==
    (/\ last.op = "recording_done"
     /\ last.pid # NoPid
     /\ last.adequate
     /\ last.pid \in heard
     /\ ledger[last.pid].last_call_status = "completed") =>
        /\ ledger[last.pid].status = "completed"
        /\ Len(callLog.rows) = last.rows0 + 1

\* C11: under Spec, a recording-ready request whose recording was fetched and
\* transcribed to fewer than MIN_WORDS words does not mark the participant
\* completed, leaves the ledger as it was and appends nothing to the call log.
C11_ShortTranscriptNotCompleted ==
    [][(last'.op = "recording_done" /\ last'.pipeline /\ ~last'.adequate) =>
          /\ ~last'.marked
          /\ ledger' = ledger
          /\ callLog' = callLog]_vars

\* a recording of an engaged participant was transcribed, came out short, and
\* the participant is still not completed
C11_Witness ==
    /\ last.op = "recording_done"
    /\ last.pid # NoPid
    /\ last.pipeline
    /\ ~last.adequate
    /\ ledger[last.pid].engaged
    /\ ledger[last.pid].status # "completed"
    /\ Len(callLog.rows) = last.rows0

\* C12: under Spec, a status event or a recording-ready event whose session id
\* matches no participant's last_call_sid is answered with 200, leaves the
\* ledger unchanged, does not run the audio pipeline and appends no audit row
\* (a recording-ready event carries a recording url: a request without one,
\* answered 400, is not one).
C12_UnknownSidNoOp ==
    [][(/\ last'.op \in {"call_status", "recording_done"}
        /\ last'.pid = NoPid
        /\ last'.resp # 400) =>
          /\ last'.resp = 200
          /\ ledger' = ledger
          /\ ~last'.pipeline
          /\ Len(callLog'.rows) = Len(callLog.rows)]_vars

\* C14: under SpecBatch, for a tick run on any reachable ledger, with the
\* schedule required or not and with the provider failing for any set of
\* participants: every eligible participant the provider does not fail for is
\* dialed, and every participant dialed has its call recorded in the ledger
\* the tick leaves on disk (one more attempt, the new session id).
C14_BatchIsolation ==
    \A rs \in BOOLEAN, fails \in SUBSET DOMAIN ledger :
        LET r == run_once(ledger, order, rs, now, nextSid, fails)
        IN  /\ Eligible(ledger, rs, now) \ fails \subseteq r.called
            /\ \A p \in r.called :
                  /\ r.state[p].attempts = ledger[p].attempts + 1
                  /\ r.state[p].last_call_sid >= nextSid

\* C15: under SpecBatch, after any sequence of ticks, failing placements
\* included, every participant's attempts in the ledger equals the number of
\* calls the provider placed for it.
C15_AttemptsCountPlacedCalls ==
    \A p \in DOMAIN ledger : ledger[p].attempts = placed[p]

\* C17: under SpecBatch, a tick that runs while the paused flag is set places
\* no call and changes no participant.
C17_PausedTickDoesNothing ==
    [][(last'.op = "run_once" /\ paused) =>
          /\ last'.called = {}
          /\ nextSid' = nextSid
          /\ ledger' = ledger]_vars

\* C13: under SpecConc, in any interleaving of the handlers' loads and saves,
\* a step that leaves a participant in the same attempt (same attempts, same
\* last_call_sid) never takes its engaged flag from TRUE to FALSE.
C13_EngagedMonotonicWithinAttempt ==
    [][\A p \in DOMAIN ledger \cap DOMAIN ledger' :
          (/\ ledger[p].engaged
           /\ ledger'[p].attempts = ledger[p].attempts
           /\ ledger'[p].last_call_sid = ledger[p].last_call_sid)
              => ledger'[p].engaged]_vars

\* C16: under SpecConc, in any interleaving of dispatch runs with the
\* engagement, status and recording-ready handlers, no step lowers the
\* attempts of a participant in the persisted ledger.
C16_AttemptsNeverDecrease ==
    [][\A p \in DOMAIN ledger \cap DOMAIN ledger' :
          ledger'[p].attempts >= ledger[p].attempts]_vars

\* C18: save_participants is atomic for readers: under any interleaving of
\* load_participants with one or more concurrent save_participants calls, a
\* load never reads a document that is only partly written (a file just
\* truncated for writing, or one holding part of a document).
C18_SaveAtomicForReaders ==
    io["r"].pc = "loaded" => io["r"].seen \notin {"truncated", "partial"}

\* C19: load_participants never raises to its caller: for a missing or empty
\* store it returns the empty ledger, and for a store that holds no ledger
\* document it returns the empty ledger too.
C19_LoadNeverRaises ==
    io["r"].pc = "loaded" =>
        /\ ~io["r"].raised
        /\ io["r"].seen # "doc" => io["r"].state = EmptyLedger

C21_LostUpdate ==
    [][\A h \in DOMAIN inflight :
          (h \notin DOMAIN inflight') =>
              \A p \in DOMAIN inflight[h].state :
                  (p # inflight[h].pid) =>
                      /\ p \in DOMAIN ledger'
                      /\ ledger'[p] = inflight[h].state[p]]_vars

\* no handler is in flight, one participant has been heard and its
\* engagement is saved, and a call placed and saved for another participant
\* is missing from the persisted ledger
C21_Witness ==
    /\ DOMAIN inflight = {}
    /\ \E p \in DOMAIN ledger, q \in DOMAIN ledger :
          /\ p # q
          /\ ledger[q].engaged
          /\ placed[p] = 1
          /\ ledger[p].attempts = 0

\* a recording-ready request that ended in error because the recording could
\* not be fetched
FetchFailed(l) == l.op = "recording_done" /\ l.resp = 500 /\ ~l.pipeline

\* C22: under Spec, a recording-ready request whose fetch of the recording
\* fails ends in error with the ledger and the call log as they were; and when
\* the next request is a delivery for the same participant with a recording
\* that downloads and transcribes to MIN_WORDS words or more, that delivery
\* marks the participant completed.
C22_FetchFailureLeavesStateForRetry ==
    [][/\ FetchFailed(last') => (ledger' = ledger /\ callLog' = callLog)
       /\ (/\ FetchFailed(last)
           /\ last.pid # NoPid
           /\ last'.op = "recording_done"
           /\ last'.pid = last.pid
           /\ last'.adequate) =>
              /\ last'.marked
              /\ ledger'[last.pid].status = "completed"]_vars

\* the fetch has failed for a participant who was heard on the current call
\* and is not completed
C22_Witness ==
    /\ FetchFailed(last)
    /\ last.pid # NoPid
    /\ last.pid \in heard
    /\ ledger[last.pid].engaged
    /\ ledger[last.pid].status # "completed"
    /\ ledger[last.pid].last_recording_url = NoUrl

\* C23: under SpecBatch, in every ledger the program reaches, a schedule
\* request with an empty or unparseable time, or for a participant the ledger
\* does not hold, is answered with an error and leaves the ledger as it is;
\* one with a well-formed New York time for a participant of the ledger sets
\* that participant's scheduled_time_local and scheduled_time_utc to the
\* instant entered and leaves every other participant's record as it is.
C23_ScheduleValidates ==
    \A pid \in Participants, lt \in ScheduleInputs :
        LET r == admin_schedule(ledger, pid, lt)
        IN  IF lt.kind \in {"empty", "bad"} \/ pid \notin DOMAIN ledger
            THEN r.resp = 400 /\ r.state = ledger
            ELSE /\ r.resp = 302
                 /\ DOMAIN r.state = DOMAIN ledger
                 /\ Parseable(r.state[pid].scheduled_time_local)
                 /\ Instant(r.state[pid].scheduled_time_local) = lt.wall + NY_UTC_OFFSET
                 /\ r.state[pid].scheduled_time_utc = ZTime(lt.wall + NY_UTC_OFFSET)
                 /\ \A q \in DOMAIN ledger \ {pid} : r.state[q] = ledger[q]

\* a schedule request has set the schedule of one participant of two, and the
\* other has none
C23_Witness ==
    /\ last.op = "schedule"
    /\ last.resp = 302
    /\ DOMAIN ledger = {"p1", "p2"}
    /\ ledger[last.pid].scheduled_time_utc = ZTime(RETRY_GAP)
    /\ \E q \in DOMAIN ledger \ {last.pid} : ledger[q].scheduled_time_utc = NoTime

\* C24: under Spec, in every ledger the program reaches, each line a dispatch
\* logs for a call it places shows the participant's phone in masked form and
\* not as the raw phone_e164, and every row of the call log has a masked phone
\* and no phone_e164 value.
C24_PhonesMasked ==
    /\ \A rs \in BOOLEAN :
          LET r == run_once(ledger, order, rs, now, nextSid, {})
          IN  \A line \in DispatchLog(ledger, r) :
                  /\ line.phone = mask_phone(ledger[line.participant_id].phone_e164)
                  /\ line.phone # ledger[line.participant_id].phone_e164
    /\ \A i \in 1 .. Len(callLog.rows) :
          /\ "phone_e164" \notin DOMAIN callLog.rows[i]
          /\ callLog.rows[i].phone_masked \in {"", "****"}

\* C25: under Spec, a schedule request for a participant that is completed or
\* failed changes neither its status nor its scheduled_time_local nor its
\* scheduled_time_utc.
C25_TerminalNotRescheduled ==
    [][(/\ last'.op = "schedule"
        /\ last'.pid \in DOMAIN ledger
        /\ ledger[last'.pid].status \in Terminal) =>
            /\ ledger'[last'.pid].status = ledger[last'.pid].status
            /\ ledger'[last'.pid].scheduled_time_local = ledger[last'.pid].scheduled_time_local
            /\ ledger'[last'.pid].scheduled_time_utc = ledger[last'.pid].scheduled_time_utc]_vars

TableStatuses == Retryable \cup Progress \cup {"completed"}

\* C27: under SpecFn, a status event (and mark_call_result alone) with a
\* provider status outside the table leaves every field of the participant's
\* record, last_call_status included, as it was.
C27_UnknownStatusNoOp ==
    (/\ fn.op \in {"mark_call_result", "call_status"}
     /\ fn.pid # NoPid
     /\ NormStatus(fn.arg) \notin TableStatuses) =>
        ledger[fn.pid] = fn.pre[fn.pid]

\* C28: under Spec, a recording-ready request that carries a recording url,
\* for a known participant whose last call status is no-answer, busy, failed
\* or canceled, is answered 200 without fetching the recording, with the
\* ledger and the call log as they were, whether engaged is true or not.
C28_RetryableFailureSkipsPipeline ==
    [][(/\ last'.op = "recording_done"
        /\ last'.pid # NoPid
        /\ last'.resp # 400
        /\ ledger[last'.pid].last_call_status \in Retryable) =>
            /\ last'.resp = 200
            /\ ~last'.pipeline
            /\ ~last'.marked
            /\ ledger' = ledger
            /\ callLog' = callLog]_vars

\* an adequate recording-ready request has been handled for an engaged
\* participant whose call ended in a retryable failure
C28_Witness ==
    /\ last.op = "recording_done"
    /\ last.pid # NoPid
    /\ last.adequate
    /\ last.resp = 200
    /\ ~last.pipeline
    /\ ledger[last.pid].last_call_status \in Retryable
    /\ ledger[last.pid].engaged
    /\ ledger[last.pid].status = "pending"
    /\ Len(callLog.rows) = 0

\* C29: under SpecBatch, a dial-now request places a call for every
\* participant with a phone that is not completed/failed and has
\* attempts < MAX_ATTEMPTS, whether the system is paused or not and whether the
\* participant has a due schedule or not.
C29_DialNowForcesDispatch ==
    [][last'.op = "dial_now" =>
          last'.called =
              {p \in DOMAIN ledger :
                  /\ ledger[p].phone_e164 # ""
                  /\ ledger[p].status \notin Terminal
                  /\ ledger[p].attempts < MAX_ATTEMPTS}]_vars

\* C30: under Spec, a participant's status becomes completed only in a
\* recording-ready request for that participant that passed every guard: the
\* participant's last call status was no retryable failure, engaged was true
\* and the transcript had MIN_WORDS words or more.  No status event, tick,
\* schedule request, upload or pass of the background worker makes a
\* participant completed.
C30_OnlyGuardedRecordingCompletes ==
    [][/\ \A p \in DOMAIN ledger' \ DOMAIN ledger : ledger'[p].status # "completed"
       /\ \A p \in DOMAIN ledger \cap DOMAIN ledger' :
             (ledger'[p].status = "completed" /\ ledger[p].status # "completed") =>
                 /\ last'.op = "recording_done"
                 /\ last'.pid = p
                 /\ last'.marked
                 /\ last'.adequate
                 /\ ledger[p].engaged
                 /\ ledger[p].last_call_status \notin Retryable]_vars

\* a status event "completed" has been handled for an engaged participant,
\* who is in_progress and not completed
C30_Witness ==
    /\ last.op = "call_status"
    /\ last.pid # NoPid
    /\ ledger[last.pid].last_call_status = "completed"
    /\ ledger[last.pid].engaged
    /\ ledger[last.pid].status = "in_progress"

\* C31: under SpecStore, a load of a store that holds a ledger document
\* returns the ledger with every missing field of DEFAULT filled with its
\* default and every present field kept, and leaves participants.json holding
\* exactly the returned ledger (written during the load when a field was
\* missing); a second load of the store the first one left returns the same
\* ledger and leaves every file as it was.
C31_MigrationOnceAtLoad ==
    LET r1 == load_participants(disk)
        r2 == load_participants(r1.disk)
        X == FromJson(disk.main.doc)
    IN  r1.seen = "doc" =>
            /\ DOMAIN r1.state = DOMAIN X
            /\ \A p \in DOMAIN X :
                  /\ DOMAIN r1.state[p] = DOMAIN X[p] \cup DefaultKeys
                  /\ \A k \in DOMAIN X[p] : r1.state[p][k] = X[p][k]
                  /\ \A k \in DefaultKeys \ DOMAIN X[p] : r1.state[p][k] = DEFAULT[k]
            /\ r1.disk.main = Content("doc", ToJson(r1.state), "", FALSE)
            /\ (r1.state # X) = (r1.disk.main # disk.main)
            /\ r2.state = r1.state
            /\ r2.disk = r1.disk
            /\ r2.moved = Stay
            /\ ~r2.raised

\* a ledger without the later fields has been loaded and participants.json
\* rewritten by that load; the store is still as the load left it and a second
\* load of it would write nothing
C31_Witness ==
    /\ io["r"].pc = "loaded"
    /\ io["r"].seen = "doc"
    /\ DefaultKeys \ DOMAIN FromJson(io["r"].before.doc)["p1"] # {}
    /\ io["r"].stored # io["r"].before
    /\ disk.main = io["r"].stored
    /\ DefaultKeys \subseteq DOMAIN io["r"].state["p1"]
    /\ load_participants(disk).disk = disk
    /\ load_participants(disk).state = io["r"].state

\* contacts files an administrator may upload next: a new number for p1, a
\* row for p2, a row without a number, and the same id twice
ImportFiles ==
    { << <<"p1", "+254700000009">> >>,
      << <<"p2", "+254700000002">> >>,
      << <<"p1", "">>, <<"p2", "+254700000002">> >>,
      << <<"p1", "+254700000008">>, <<"p1", "+254700000009">> >> }

\* the number the last usable row of a file gives for pid ("" when it has none)
RECURSIVE ImportedPhone(_, _, _)
ImportedPhone(rows, pid, i) ==
    IF i = 0 THEN ""
    ELSE IF rows[i][1] = pid /\ rows[i][2] # "" THEN rows[i][2]
    ELSE ImportedPhone(rows, pid, i - 1)

\* C32: under Spec, a contact import creates each new id as DEFAULT plus its
\* phone (status pending, attempts 0, engaged FALSE, no schedule, no call
\* metadata), changes of an id that exists only phone_e164, and leaves every
\* other participant as it was, for the file imported and for each file of
\* ImportFiles imported in its place; and no step of any operation (import,
\* schedule, dispatch, webhooks, background worker) removes a participant from
\* the ledger.
C32_ImportCreatesOrUpdatesPhone ==
    [][/\ DOMAIN ledger \subseteq DOMAIN ledger'
       /\ last'.op = "upload_contacts" =>
             /\ \A p \in DOMAIN ledger :
                   ledger'[p] = [ledger[p] EXCEPT !.phone_e164 = ledger'[p].phone_e164]
             /\ \A rows \in ImportFiles :
                   LET r == UpsertRows(ledger, order, rows, 1).state
                   IN  /\ DOMAIN ledger \subseteq DOMAIN r
                       /\ \A p \in DOMAIN r :
                             LET phone == ImportedPhone(rows, p, Len(rows))
                             IN  IF phone = "" THEN Has(ledger, p) /\ r[p] = ledger[p]
                                 ELSE IF Has(ledger, p)
                                 THEN r[p] = [ledger[p] EXCEPT !.phone_e164 = phone]
                                 ELSE /\ r[p] = [DEFAULT EXCEPT !.phone_e164 = phone]
                                      /\ r[p].status = "pending"
                                      /\ r[p].attempts = 0
                                      /\ r[p].engaged = FALSE
                                      /\ r[p].scheduled_time_utc = NoTime
                                      /\ r[p].scheduled_time_local = NoTime]_vars

\* a contacts file naming p1 has just been imported again after p1 completed
\* its survey; p1 is still completed with its attempts, schedule and recording
C32_Witness ==
    /\ last.op = "upload_contacts"
    /\ Has(ledger, "p1")
    /\ ledger["p1"].status = "completed"
    /\ ledger["p1"].attempts >= 1
    /\ ledger["p1"].engaged
    /\ ledger["p1"].last_recording_url # NoUrl
    /\ ledger["p1"].phone_e164 = "+254700000001"

\* the run_once calls in flight (calls placed, ledger not yet saved) that
\* dialed p: each holds for p a session id the persisted ledger does not have
DialedInFlight(p) ==
    {h \in DOMAIN inflight :
        /\ inflight[h].op = "run_once"
        /\ Has(inflight[h].state, p)
        /\ inflight[h].state[p].last_call_sid # NoSid
        /\ inflight[h].state[p].last_call_sid # ledger[p].last_call_sid}

\* C33: under SpecConc, with run_once calls that overlap (each loads the
\* ledger before the other has saved), no participant has more than
\* MAX_ATTEMPTS calls placed with the provider, and no participant is dialed by
\* two runs that decided on the same persisted ledger.
C33_NoDoubleDial ==
    \A p \in DOMAIN ledger :
        /\ placed[p] <= MAX_ATTEMPTS
        /\ Cardinality(DialedInFlight(p)) <= 1

\* the participant's last_call_status is a retryable failure recorded before
\* its current attempt began: recording such a status sets status pending or
\* failed, every later status event overwrites last_call_status, and
\* mark_call_started returns the participant to in_progress without touching
\* last_call_status
StaleFailure(p) ==
    /\ ledger[p].status = "in_progress"
    /\ ledger[p].last_call_status \in Retryable

\* C34: under Spec, the completion guard judges the current attempt only: a
\* recording-ready event of the participant's current call, with a recording
\* that downloads and an adequate transcript, for a participant that is
\* engaged and in_progress in that attempt, completes the participant even
\* when the last status recorded is a retryable failure of an earlier attempt.
C34_GuardJudgesCurrentAttempt ==
    (/\ last.op = "recording_done"
     /\ last.pid # NoPid
     /\ last.adequate
     /\ ledger[last.pid].engaged
     /\ ledger[last.pid].status \in {"in_progress", "completed"}) => last.marked

\* the two webhook events of the current call of p, processed one after the
\* other on the ledger as it is: the status event completed, and the
\* recording-ready event of a completed recording that downloads and
\* transcribes to MIN_WORDS words; [state, log]
StatusThenRecording(p) ==
    LET sid == ledger[p].last_call_sid
        r == recording_done(call_status(ledger, order, sid, "completed"), order,
                            callLog, sid, RecUrl(sid), "completed", TRUE, MIN_WORDS, now)
    IN  [state |-> r.state, log |-> r.log]

RecordingThenStatus(p) ==
    LET sid == ledger[p].last_call_sid
        r == recording_done(ledger, order, callLog, sid, RecUrl(sid), "completed",
                            TRUE, MIN_WORDS, now)
    IN  [state |-> call_status(r.state, order, sid, "completed"), log |-> r.log]

\* C35: under Spec, for a participant in an attempt (in_progress, with a
\* session id), processing the status event completed and the recording-ready
\* event with an adequate transcript one after the other gives the same end in
\* either order: status completed when the participant is engaged, status
\* pending and no audit record when it is not.
C35_WebhookOrderIndependent ==
    \A p \in DOMAIN ledger :
        (ledger[p].status = "in_progress" /\ ledger[p].last_call_sid # NoSid) =>
            LET a == StatusThenRecording(p)
                b == RecordingThenStatus(p)
            IN  IF ledger[p].engaged
                THEN /\ a.state[p].status = "completed"
                     /\ b.state[p].status = "completed"
                ELSE /\ a.state[p].status = "pending"
                     /\ b.state[p].status = "pending"
                     /\ a.log = callLog
                     /\ b.log = callLog

\* C36: under Spec (operations one after the other), every participant with
\* status completed has engaged TRUE, a non-empty last_outputs and a
\* last_recording_url that is set.
C36_CompletedHasEvidence ==
    \A p \in DOMAIN ledger :
        ledger[p].status = "completed" =>
            /\ ledger[p].engaged
            /\ ledger[p].last_outputs # {}
            /\ ledger[p].last_recording_url # NoUrl

\* a tick has run at least RETRY_GAP after the call that completed p1 and
\* has not dialed it: p1 is still completed, engaged, with outputs and url
C36_Witness ==
    /\ last.op = "run_once"
    /\ Has(ledger, "p1")
    /\ ledger["p1"].status = "completed"
    /\ ledger["p1"].engaged
    /\ ledger["p1"].last_outputs # {}
    /\ ledger["p1"].last_recording_url # NoUrl
    /\ ledger["p1"].last_call_time.kind = "naive"
    /\ now >= ledger["p1"].last_call_time.wall + RETRY_GAP

\* ticks of the scheduler loop a starved participant is followed for
StarveTicks == 3

\* run_loop: k more ticks run_once(require_schedule=True), one after the
\* other, with the provider rejecting the placements of fails every time;
\* the participants dialed in any of them
RECURSIVE DialedWithin(_, _, _, _)
DialedWithin(state, sid, k, fails) ==
    IF k = 0 THEN {}
    ELSE LET r == run_once(state, order, TRUE, now, sid, fails)
         IN  r.called \cup DialedWithin(r.state, r.sid, k - 1, fails)

\* C37: under SpecBatch, no starvation: from any reachable ledger, with the
\* provider persistently rejecting the placements of any set of participants,
\* every other participant that is eligible (non-terminal, under the cap,
\* schedule due, retry gap passed) is dialed within StarveTicks ticks of the
\* scheduler loop.
C37_NoStarvation ==
    \A fails \in SUBSET DOMAIN ledger :
        \A p \in Eligible(ledger, TRUE, now) \ fails :
            p \in DialedWithin(ledger, nextSid, StarveTicks, fails)

\* C38: under Spec, when the status event that ends the call of a
\* participant's MAX_ATTEMPTS-th attempt reports a retryable failure, or
\* completed for a participant that is not engaged, the participant's status
\* is failed after the event; it is not left pending with attempts =
\* MAX_ATTEMPTS.
C38_ExhaustedBudgetIsTerminal ==
    (/\ last.op = "call_status"
     /\ last.pid # NoPid
     /\ ledger[last.pid].attempts >= MAX_ATTEMPTS
     /\ \/ ledger[last.pid].last_call_status \in Retryable
        \/ ledger[last.pid].last_call_status = "completed" /\ ~ledger[last.pid].engaged)
        => ledger[last.pid].status = "failed"

\* the audit rows of the call log that carry session id sid
RowsOf(log, sid) == {i \in 1 .. Len(log.rows) : log.rows[i].call_sid = sid}

\* C39: under Spec, a recording-ready event delivered for the current session
\* of a participant that is already completed leaves the ledger as it is and
\* appends no audit row, and the call log holds at most one row per session id.
C39_RedeliveryIdempotent ==
    [][/\ (/\ last'.op = "recording_done"
           /\ last'.pid # NoPid
           /\ ledger[last'.pid].status = "completed") =>
              /\ ledger' = ledger
              /\ Len(callLog'.rows) = Len(callLog.rows)
       /\ \A sid \in Sids : Cardinality(RowsOf(callLog', sid)) <= 1]_vars

\* C40: under Spec, a status event or an utterance (POST /next) that carries a
\* session id earlier than the one a participant's current attempt recorded
\* as last_call_sid changes no field of that participant: its engaged, status,
\* last_call_status and every other field stay as they were.
C40_SupersededCallIgnored ==
    [][(/\ last'.op \in {"call_status", "next_question"}
        /\ last'.sid # NoSid) =>
          \A p \in DOMAIN ledger :
              (/\ ledger[p].last_call_sid # NoSid
               /\ last'.sid < ledger[p].last_call_sid) => ledger'[p] = ledger[p]]_vars

\* a status event carrying session id 1 has been handled while p1 is in its
\* second attempt (session 2): it matched nobody, and p1 is still in_progress
\* and not engaged, with no status recorded
C40_Witness ==
    /\ last.op = "call_status"
    /\ last.sid = 1
    /\ last.pid = NoPid
    /\ Has(ledger, "p1")
    /\ ledger["p1"].last_call_sid = 2
    /\ ledger["p1"].attempts = 2
    /\ ledger["p1"].status = "in_progress"
    /\ ledger["p1"].last_call_status = "none"
    /\ ~ledger["p1"].engaged

============================================================================
